---- MODULE Spec2Model ----
(***************************************************************************)
(* Model of the geo-classification engine of china_ip_checker.py           *)
(* (ChinaIPChecker: the lru_cache around _query_database, check_single,    *)
(* check_batch with its ThreadPoolExecutor, get_statistics, clear_cache).  *)
(*                                                                         *)
(* Callers are threads that use one shared ChinaIPChecker.  Every lookup   *)
(* (_is_china_ip_single) is split at the points where another thread can   *)
(* run: the cache_info() read before, the call of the cached query (hit,   *)
(* or miss followed by the database query and the insertion), and the      *)
(* cache_info() read after.                                                *)
(***************************************************************************)
EXTENDS Integers, Sequences, FiniteSets, TLC

\* ---------------------------------------------------------------- bounds
\* Longest input list handed to check_batch / get_statistics.
MaxLen == 3
\* Number of calls the first thread makes in one behaviour.
MaxOps == 2
\* cache_size the checker is constructed with (DEFAULT_CONFIG has 10000).
CacheSize == 1

\* ------------------------------------------------------------- constants
\* DEFAULT_CONFIG['max_workers']
DefaultMaxWorkers == 20

None == "None"
\* The IP strings callers pass.
IPs == {"1.1.1.1", "8.8.8.8"}
\* The threads that call the shared checker.
Callers == {"c1", "c2"}
\* max_workers arguments: 0 stands for None (both are falsy in `or`).
MaxWorkersArgs == {-1, 0, 1}

\* Error texts of _query_database (the first is the source's
\* "IP address not found" text, written in ASCII).
NotFoundMsg == "address not found"
ReaderErrorMsg == "reader error"

\* The database file the checker is constructed with, and the one
\* update_database switches to.
OldDb == "GeoLite2-Country.mmdb"
NewDb == "new.mmdb"

\* reader.country(ip).country.iso_code for an address the database file
\* db holds: the two files disagree on both addresses.
IsoCode(db, ip) ==
    IF db = NewDb
    THEN IF ip = "8.8.8.8" THEN "CN" ELSE "US"
    ELSE IF ip = "1.1.1.1" THEN "CN" ELSE "US"

\* _query_database(ip): the (country_code, error) pairs one query can
\* return.  Every query opens the database file anew, so it answers by what
\* the file holds at that moment: the record's code, AddressNotFoundError
\* when the file has no record of ip, or any other exception of the reader.
QueryOutcomes(db, ip) ==
    {<<IsoCode(db, ip), None>>, <<None, NotFoundMsg>>, <<None, ReaderErrorMsg>>}

\* ------------------------------------------------------------- lru_cache
\* The cache is the list of entries in recency order, oldest first.  gen is
\* the number of cache_clear calls that preceded the insertion.
CacheKeys(ch) == {ch[i].ip : i \in DOMAIN ch}

CacheIndex(ch, ip) == CHOOSE i \in DOMAIN ch : ch[i].ip = ip

CacheGet(ch, ip) == ch[CacheIndex(ch, ip)]

\* A hit moves the entry to the most recent position.
CacheTouch(ch, ip) ==
    LET i == CacheIndex(ch, ip)
    IN SubSeq(ch, 1, i - 1) \o SubSeq(ch, i + 1, Len(ch)) \o <<ch[i]>>

\* The pair of a miss handed back and not stored (for C5).
CacheInsertDropped(ch, ip, pair, g) == ch

\* Insertion after a miss: nothing when the key arrived meanwhile or the
\* cache holds nothing (maxsize 0); the oldest entry leaves a full cache.
CacheInsert(ch, ip, pair, g) ==
    LET e == [ip |-> ip, pair |-> pair, gen |-> g]
    IN IF ip \in CacheKeys(ch) \/ CacheSize = 0 THEN ch
       ELSE IF Len(ch) < CacheSize THEN Append(ch, e)
       ELSE Append(Tail(ch), e)

\* The entries left in place by a clear (for C8).
CacheClearKept(ch) == ch

\* cache_clear(): the entries go, and hits and misses are set to 0.
CacheClear(ch) == << >>

\* ------------------------------------------------------- pure functions
\* list(dict.fromkeys(ips)): first occurrences, in order.
RECURSIVE Dedupe(_)
Dedupe(ips) ==
    IF ips = << >> THEN << >>
    ELSE LET front == Dedupe(SubSeq(ips, 1, Len(ips) - 1))
             last == ips[Len(ips)]
         IN IF \E i \in DOMAIN front : front[i] = last
            THEN front ELSE Append(front, last)

\* max_workers or self.config['max_workers']
EffectiveWorkers(mw) == IF mw # 0 THEN mw ELSE DefaultMaxWorkers

\* Any country code taken for the target region (for C4).
IsChinaAnyCode(country_code) == country_code # None

\* country_code == 'CN' if country_code else False
IsChina(country_code) ==
    IF country_code # None THEN country_code = "CN" ELSE FALSE

\* The dict _is_china_ip_single returns.
MakeResult(ip, pair, cached) ==
    [ip |-> ip, is_china |-> IsChina(pair[1]), country_code |-> pair[1],
     error |-> pair[2], cached |-> cached]

\* ip_order.get(x['ip'], float('inf'))
IpOrder(unique, ip) ==
    IF \E i \in DOMAIN unique : unique[i] = ip
    THEN (CHOOSE i \in DOMAIN unique : unique[i] = ip) - 1
    ELSE Len(unique)

\* list.sort(key=...) is stable: an element goes behind the elements whose
\* key is not larger.
RECURSIVE InsertByOrder(_, _, _)
InsertByOrder(unique, sorted, r) ==
    IF sorted = << >> THEN <<r>>
    ELSE LET last == sorted[Len(sorted)]
         IN IF IpOrder(unique, last.ip) <= IpOrder(unique, r.ip)
            THEN Append(sorted, r)
            ELSE Append(InsertByOrder(unique, SubSeq(sorted, 1, Len(sorted) - 1), r), last)

\* The results left in the order the futures completed (for C1).
SortResultsSkipped(unique, rs) == rs

RECURSIVE SortResults(_, _)
SortResults(unique, rs) ==
    IF rs = << >> THEN << >>
    ELSE InsertByOrder(unique, SortResults(unique, SubSeq(rs, 1, Len(rs) - 1)), rs[Len(rs)])

\* sum(1 for r in results if ...)
CountIf(flags) == Cardinality({i \in DOMAIN flags : flags[i]})

\* An empty total reported as 100 percent (for C9).
PercentageEmptyFull(count, total) ==
    IF total > 0 THEN (count * 10000) \div total ELSE 10000

\* round(count / total * 100, 2) if total > 0 else 0, in hundredths of a
\* percent (round half to even on the exact quotient).
Percentage(count, total) ==
    IF total > 0
    THEN LET n == count * 10000
             q == n \div total
             r2 == 2 * (n % total)
         IN IF r2 > total \/ (r2 = total /\ q % 2 = 1) THEN q + 1 ELSE q
    ELSE 0

IsChinaOk(r) == r.is_china /\ r.error = None
\* An error result counted as foreign too (for C22).
IsForeignAny(r) == ~r.is_china

IsForeignOk(r) == ~r.is_china /\ r.error = None
HasError(r) == r.error # None
IsCached(r) == r.cached

\* total taken from the input list, not from the results (for C10).
StatisticsOverInput(ips, rs) ==
    LET total == Len(ips)
        china_count == CountIf([i \in DOMAIN rs |-> IsChinaOk(rs[i])])
        cached_count == CountIf([i \in DOMAIN rs |-> IsCached(rs[i])])
    IN [total |-> total, china_ips |-> china_count,
        foreign_ips |-> CountIf([i \in DOMAIN rs |-> IsForeignOk(rs[i])]),
        error_ips |-> CountIf([i \in DOMAIN rs |-> HasError(rs[i])]),
        cached_ips |-> cached_count,
        china_percentage |-> Percentage(china_count, total),
        cache_hit_rate |-> Percentage(cached_count, total)]

\* The dict get_statistics(ips) builds from the results of check_batch.
Statistics(ips, rs) ==
    LET total == Len(rs)
        china_count == CountIf([i \in DOMAIN rs |-> IsChinaOk(rs[i])])
        foreign_count == CountIf([i \in DOMAIN rs |-> IsForeignOk(rs[i])])
        error_count == CountIf([i \in DOMAIN rs |-> HasError(rs[i])])
        cached_count == CountIf([i \in DOMAIN rs |-> IsCached(rs[i])])
    IN [total |-> total, china_ips |-> china_count, foreign_ips |-> foreign_count,
        error_ips |-> error_count, cached_ips |-> cached_count,
        china_percentage |-> Percentage(china_count, total),
        cache_hit_rate |-> Percentage(cached_count, total)]

\* ------------------------------------------------------------------ state
VARIABLES
    cache,       \* entries of the lru_cache, oldest first
    hits,        \* cache_info().hits
    epoch,       \* number of cache_clear() calls so far
    pc,          \* where each caller is in its call
    op,          \* the method each caller called
    args,        \* its arguments
    unique_ips,  \* check_batch: unique_ips
    tasks,       \* per caller: the lookups (_is_china_ip_single) of its call, by IP
    results,     \* check_batch: results, in the order as_completed yields them
    ret,         \* the value returned to the caller (a list of result dicts)
    stats,       \* the dict get_statistics returned (a list of none or one)
    nops,        \* per caller: calls made so far
    db_path,     \* self.db_path
    run          \* the check_single calls of one IP made back to back by one
                 \* caller while no other call ran: how many returned, and
                 \* the pair the last one returned

vars == <<cache, hits, epoch, pc, op, args, unique_ips, tasks, results, ret,
          stats, nops, db_path, run>>

\* The state of app.py: the request a probe endpoint is answering, its
\* response, and the network operations (DNS, TCP, TLS) it performed.
VARIABLES
    request,     \* the endpoint, the request's language and JSON body, and
                 \* what the network answers to the operations of the probe
    response,    \* the JSON the endpoint returned, or that it raised
    netlog       \* the network operations performed, in order

probevars == <<request, response, netlog>>

\* The facade's classification cache of app.py (lines 57-91).
VARIABLES
    ip_checker,  \* _ip_checker: "unset" until init_ip_checker has run, then
                 \* the ChinaIPChecker or None
    ip_cache,    \* _ip_cache: for every client IP its (result, ts) entry
    clock,       \* what datetime.now() reads
    fcall        \* per thread, the is_china_ip call it is in

facvars == <<ip_checker, ip_cache, clock, fcall>>

\* The module-level singleton of china_ip_checker.py (lines 250-270).
VARIABLES
    china_ip_checker,  \* _china_ip_checker: None or the instance
    checker_lock,      \* _checker_lock: None or the thread that holds it
    instances,         \* the ChinaIPChecker objects constructed so far
    gcall              \* per thread, the get_china_ip_checker call it is in

singvars == <<china_ip_checker, checker_lock, instances, gcall>>

\* detect_ip_and_language of app.py (lines 102-118).
VARIABLES
    IS_CHINA_IP,  \* the module-level flag
    greq          \* per thread, the request whose before_request it runs:
                  \* client IP, what is_china_ip returned, g.lang

locvars == <<IS_CHINA_IP, greq>>

appvars == <<probevars, facvars, singvars, locvars>>

\* _china_ip_checker = None: no instance.
NoInstance == [id |-> 0, db_path |-> "None"]

\* The thread is in no get_china_ip_checker call.
NoGetter == [pc |-> "idle", db_path |-> "None", ret |-> NoInstance, calls |-> 0]

\* The thread handles no request.
NoDetect == [pc |-> "idle", ip |-> "None", own |-> FALSE, lang |-> "None"]

NoRequest == [probe |-> "none"]

NoResponse == [status |-> "none"]

\* No entry for the key in _ip_cache.
NoEntry == [result |-> FALSE, ts |-> -1]

\* The thread is in no is_china_ip call.
NoCall == [pc |-> "idle", ip |-> "None", now |-> 0, seen |-> NoEntry, calls |-> 0,
           ret |-> FALSE]

\* app.py has handled no request.
AppInit ==
    /\ request = NoRequest
    /\ response = NoResponse
    /\ netlog = << >>
    /\ ip_checker = "unset"
    /\ ip_cache = [ip \in IPs |-> NoEntry]
    /\ clock = 0
    /\ fcall = [c \in Callers |-> NoCall]
    /\ china_ip_checker = NoInstance
    /\ checker_lock = "None"
    /\ instances = 0
    /\ gcall = [c \in Callers |-> NoGetter]
    /\ IS_CHINA_IP = FALSE
    /\ greq = [c \in Callers |-> NoDetect]

\* A lookup.  st: start, queued, call, query, got, done.  before
\* is cache_info_before.hits, pair what _cached_query returned, cached the
\* flag of the result.  hit, began, served, queries and late record whether
\* the cache served the pair, the epoch the lookup began in, the gen of the
\* entry served, the _query_database calls made, and whether the lookup
\* took longer than config['timeout'].  db is the file the lookup's
\* _query_database opened.
NewTask(st) ==
    [st |-> st, before |-> 0, pair |-> <<None, None>>, cached |-> FALSE,
     hit |-> FALSE, began |-> 0, served |-> 0, queries |-> 0, late |-> FALSE,
     db |-> None]

NoTasks == [ip \in {} |-> NewTask("start")]

NoArgs == [ips |-> << >>, max_workers |-> 0, use_cache |-> TRUE]

NoRun == [by |-> None, ip |-> None, n |-> 0, pair |-> <<None, None>>]

IpLists == UNION {[1..n -> IPs] : n \in 0..MaxLen}

Init ==
    /\ cache = << >>
    /\ hits = 0
    /\ epoch = 0
    /\ pc = [c \in Callers |-> "idle"]
    /\ op = [c \in Callers |-> "none"]
    /\ args = [c \in Callers |-> NoArgs]
    /\ unique_ips = [c \in Callers |-> << >>]
    /\ tasks = [c \in Callers |-> NoTasks]
    /\ results = [c \in Callers |-> << >>]
    /\ ret = [c \in Callers |-> << >>]
    /\ stats = [c \in Callers |-> << >>]
    /\ nops = [c \in Callers |-> 0]
    /\ db_path = OldDb
    /\ run = NoRun
    /\ AppInit

\* A caller that holds no call's outcome makes its next call: the first
\* thread makes at most MaxOps calls, and a thread that interferes with it
\* makes a single call.
Budget(c) == IF c = "c1" THEN MaxOps ELSE 1

CanCall(c) == pc[c] = "idle" /\ nops[c] < Budget(c)

\* The caller-local state at the start of a call: one task in state st for
\* every IP of ipset.
BeginCall(c, name, a, unique, newpc, ipset, st, value) ==
    /\ pc' = [pc EXCEPT ![c] = newpc]
    /\ op' = [op EXCEPT ![c] = name]
    /\ args' = [args EXCEPT ![c] = a]
    /\ unique_ips' = [unique_ips EXCEPT ![c] = unique]
    /\ tasks' = [tasks EXCEPT ![c] = [ip \in ipset |-> NewTask(st)]]
    /\ results' = [results EXCEPT ![c] = << >>]
    /\ ret' = [ret EXCEPT ![c] = << >>]
    /\ stats' = [stats EXCEPT ![c] = value]
    /\ UNCHANGED appvars

\* A step of caller c leaves a run of c alone and ends a run of another.
RunAfterStep(c) == IF run.by = c THEN run ELSE NoRun

\* check_single(ip, use_cache), up to the call of _is_china_ip_single.
CheckSingle(c, ip, use_cache) ==
    /\ CanCall(c)
    /\ nops' = [nops EXCEPT ![c] = @ + 1]
    /\ cache' = IF use_cache THEN cache ELSE CacheClear(cache)
    /\ hits' = IF use_cache THEN hits ELSE 0
    /\ epoch' = IF use_cache THEN epoch ELSE epoch + 1
    /\ BeginCall(c, "check_single",
                 [ips |-> <<ip>>, max_workers |-> 0, use_cache |-> use_cache],
                 <<ip>>, "single", {ip}, "start", << >>)
    /\ UNCHANGED db_path
    /\ run' = IF run.by = c /\ run.ip = ip /\ use_cache THEN run
              ELSE [by |-> c, ip |-> ip, n |-> 0, pair |-> <<None, None>>]

\* check_batch(ips, max_workers, use_cache), up to the first lookup: the
\* empty list returns at once, one unique IP is looked up by the caller,
\* ThreadPoolExecutor raises ValueError for max_workers <= 0, and otherwise
\* one task per unique IP is submitted.  name is the public method called
\* (get_statistics goes through check_batch).
BatchBegin(c, name, ips, max_workers, use_cache) ==
    LET unique == Dedupe(ips)
        workers == EffectiveWorkers(max_workers)
        a == [ips |-> ips, max_workers |-> max_workers, use_cache |-> use_cache]
        clears == ips # << >> /\ ~use_cache
        empty == IF name = "get_statistics" THEN <<Statistics(ips, << >>)>> ELSE << >>
    IN /\ CanCall(c)
       /\ nops' = [nops EXCEPT ![c] = @ + 1]
       /\ cache' = IF clears THEN CacheClear(cache) ELSE cache
       /\ hits' = IF clears THEN 0 ELSE hits
       /\ epoch' = IF clears THEN epoch + 1 ELSE epoch
       /\ IF ips = << >>
          THEN BeginCall(c, name, a, << >>, "returned", {}, "start", empty)
          ELSE IF Len(unique) = 1
          THEN BeginCall(c, name, a, unique, "direct", {unique[1]}, "start", << >>)
          ELSE IF workers <= 0
          THEN BeginCall(c, name, a, unique, "raised", {}, "start", << >>)
          ELSE BeginCall(c, name, a, unique, "pool",
                         {unique[i] : i \in DOMAIN unique}, "queued", << >>)
       /\ UNCHANGED db_path
       /\ run' = NoRun

\* check_batch called with a list of lists and a max_workers of workers.
CheckBatch(c, lists, workers) ==
    /\ CanCall(c)
    /\ \E ips \in lists, max_workers \in workers, use_cache \in BOOLEAN :
          BatchBegin(c, "check_batch", ips, max_workers, use_cache)

\* get_statistics(ips, use_cache) calls check_batch(ips, use_cache=use_cache).
GetStatistics(c, lists) ==
    /\ CanCall(c)
    /\ \E ips \in lists, use_cache \in BOOLEAN :
          BatchBegin(c, "get_statistics", ips, 0, use_cache)

\* check_batch(ips, max_workers, use_cache) without the shortcut of lines
\* 133-135: the worker-pool path (lines 137-160) taken whatever the number
\* of unique IPs.  The code never runs it for one unique IP; it is what the
\* shortcut is measured against.
PoolPath(c, lists, workers) ==
    /\ CanCall(c)
    /\ \E ips \in lists \ {<< >>}, max_workers \in workers, use_cache \in BOOLEAN :
          LET unique == Dedupe(ips)
              a == [ips |-> ips, max_workers |-> max_workers, use_cache |-> use_cache]
          IN /\ nops' = [nops EXCEPT ![c] = @ + 1]
             /\ cache' = IF use_cache THEN cache ELSE CacheClear(cache)
             /\ hits' = IF use_cache THEN hits ELSE 0
             /\ epoch' = IF use_cache THEN epoch ELSE epoch + 1
             /\ IF EffectiveWorkers(max_workers) <= 0
                THEN BeginCall(c, "pool_path", a, unique, "raised", {}, "start", << >>)
                ELSE BeginCall(c, "pool_path", a, unique, "pool",
                               {unique[i] : i \in DOMAIN unique}, "queued", << >>)
             /\ UNCHANGED db_path
             /\ run' = NoRun

\* clear_cache()
ClearCache(c) ==
    /\ CanCall(c)
    /\ nops' = [nops EXCEPT ![c] = @ + 1]
    /\ cache' = CacheClear(cache)
    /\ hits' = 0
    /\ epoch' = epoch + 1
    /\ BeginCall(c, "clear_cache", NoArgs, << >>, "returned", {}, "start", << >>)
    /\ UNCHANGED db_path
    /\ run' = NoRun

\* update_database(new_db_path) up to the assignment of self.db_path: it
\* raises FileNotFoundError when the file is not there.
UpdateDatabase(c) ==
    /\ CanCall(c)
    /\ nops' = [nops EXCEPT ![c] = @ + 1]
    /\ \E exists \in BOOLEAN :
          IF exists
          THEN /\ db_path' = NewDb
               /\ BeginCall(c, "update_database", NoArgs, << >>, "clearing", {},
                            "start", << >>)
          ELSE /\ UNCHANGED db_path
               /\ BeginCall(c, "update_database", NoArgs, << >>, "raised", {},
                            "start", << >>)
    /\ run' = NoRun
    /\ UNCHANGED <<cache, hits, epoch>>

\* update_database: self.clear_cache(), and the call returns.
UpdateClear(c) ==
    /\ pc[c] = "clearing"
    /\ cache' = CacheClear(cache)
    /\ hits' = 0
    /\ epoch' = epoch + 1
    /\ pc' = [pc EXCEPT ![c] = "returned"]
    /\ run' = NoRun
    /\ UNCHANGED <<op, args, unique_ips, tasks, results, ret, stats, nops, db_path>>
    /\ UNCHANGED appvars

\* ---------------------------------------------------------------- lookups
\* The state of the lookup of ip in the call of c.
St(c, ip) == IF ip \in DOMAIN tasks[c] THEN tasks[c][ip].st ELSE "none"

\* The tasks a worker thread of the caller's executor is running.
Running(c) == {ip \in DOMAIN tasks[c] : tasks[c][ip].st \in {"call", "query", "got"}}

\* The work queue of the executor is first in, first out.
FirstQueued(c, ip) ==
    /\ St(c, ip) = "queued"
    /\ \A i \in DOMAIN unique_ips[c] :
          i < IpOrder(unique_ips[c], ip) + 1 => St(c, unique_ips[c][i]) # "queued"

\* Every call taken for a miss (for C6).
IsHitNever(ch, ip) == FALSE

\* functools.lru_cache: the key is served when the cache holds it.
IsHit(ch, ip) == ip \in CacheKeys(ch)

\* A counter that did not move taken for a hit (for C11).
HitsGrewOrSame(before, after) == after >= before

\* cache_info_after.hits > cache_info_before.hits
HitsGrew(before, after) == after > before

\* _is_china_ip_single begins, in the calling thread or in a worker that
\* takes the task off the queue (at most max_workers run at a time):
\* cache_info_before = self._cached_query.cache_info()
LookupBegin(c, ip) ==
    /\ \/ pc[c] \in {"single", "direct"} /\ St(c, ip) = "start"
       \/ /\ pc[c] = "pool"
          /\ FirstQueued(c, ip)
          /\ Cardinality(Running(c)) < EffectiveWorkers(args[c].max_workers)
    /\ tasks' = [tasks EXCEPT ![c][ip].st = "call", ![c][ip].before = hits,
                              ![c][ip].began = epoch]
    /\ run' = RunAfterStep(c)
    /\ UNCHANGED <<cache, hits, epoch, pc, op, args, unique_ips, results, ret,
                   stats, nops>>
    /\ UNCHANGED db_path
    /\ UNCHANGED appvars

\* self._cached_query(ip): a hit returns the memoized pair; a miss goes on
\* to _query_database outside the cache's lock, which opens the file
\* self.db_path names.
CachedQueryCall(c, ip) ==
    /\ St(c, ip) = "call"
    /\ IF IsHit(cache, ip)
       THEN /\ hits' = hits + 1
            /\ cache' = CacheTouch(cache, ip)
            /\ tasks' = [tasks EXCEPT ![c][ip].st = "got",
                                      ![c][ip].pair = CacheGet(cache, ip).pair,
                                      ![c][ip].hit = TRUE,
                                      ![c][ip].served = CacheGet(cache, ip).gen]
       ELSE /\ tasks' = [tasks EXCEPT ![c][ip].st = "query", ![c][ip].db = db_path]
            /\ UNCHANGED <<cache, hits>>
    /\ run' = RunAfterStep(c)
    /\ UNCHANGED <<epoch, pc, op, args, unique_ips, results, ret, stats, nops>>
    /\ UNCHANGED db_path
    /\ UNCHANGED appvars

\* _query_database(ip) returns and the wrapper stores the pair.
QueryDatabaseReturn(c, ip) ==
    /\ St(c, ip) = "query"
    /\ \E pair \in QueryOutcomes(tasks[c][ip].db, ip) :
          /\ cache' = CacheInsert(cache, ip, pair, epoch)
          /\ tasks' = [tasks EXCEPT ![c][ip].st = "got", ![c][ip].pair = pair,
                                    ![c][ip].queries = @ + 1]
    /\ run' = RunAfterStep(c)
    /\ UNCHANGED <<hits, epoch, pc, op, args, unique_ips, results, ret, stats, nops>>
    /\ UNCHANGED db_path
    /\ UNCHANGED appvars

\* check_single, or check_batch with one unique IP: cache_info_after, the
\* cached flag, and the result of the lookup is returned.
SingleReturn(c) ==
    /\ pc[c] \in {"single", "direct"}
    /\ \E ip \in DOMAIN tasks[c] :
          /\ tasks[c][ip].st = "got"
          /\ LET cached == HitsGrew(tasks[c][ip].before, hits)
                 r == MakeResult(ip, tasks[c][ip].pair, cached)
             IN /\ tasks' = [tasks EXCEPT ![c][ip].st = "done", ![c][ip].cached = cached]
                /\ ret' = [ret EXCEPT ![c] = <<r>>]
                /\ stats' = [stats EXCEPT ![c] =
                                IF op[c] = "get_statistics"
                                THEN <<Statistics(args[c].ips, <<r>>)>> ELSE << >>]
                /\ run' = IF run.by = c /\ op[c] = "check_single"
                          THEN [run EXCEPT !.n = @ + 1, !.pair = tasks[c][ip].pair]
                          ELSE NoRun
    /\ pc' = [pc EXCEPT ![c] = "returned"]
    /\ UNCHANGED <<cache, hits, epoch, op, args, unique_ips, results, nops>>
    /\ UNCHANGED db_path
    /\ UNCHANGED appvars

\* A worker finishes its task (cache_info_after, the cached flag, the
\* result dict) and as_completed hands the finished future to the loop of
\* check_batch: future.result(timeout=...) returns at once and the result
\* is appended, so results is in the order of completion.  (No task raises:
\* _query_database and _is_china_ip_single catch Exception.)
TaskDone(c, ip) ==
    /\ pc[c] = "pool"
    /\ St(c, ip) = "got"
    /\ LET cached == HitsGrew(tasks[c][ip].before, hits)
       IN /\ tasks' = [tasks EXCEPT ![c][ip].st = "done", ![c][ip].cached = cached]
          /\ results' = [results EXCEPT ![c] =
                            Append(@, MakeResult(ip, tasks[c][ip].pair, cached))]
    /\ run' = RunAfterStep(c)
    /\ UNCHANGED <<cache, hits, epoch, pc, op, args, unique_ips, ret, stats, nops>>
    /\ UNCHANGED db_path
    /\ UNCHANGED appvars

\* config['timeout'] seconds pass while a task is in the database query.
TimeoutElapses(c, ip) ==
    /\ pc[c] = "pool"
    /\ St(c, ip) = "query"
    /\ ~tasks[c][ip].late
    /\ tasks' = [tasks EXCEPT ![c][ip].late = TRUE]
    /\ run' = RunAfterStep(c)
    /\ UNCHANGED <<cache, hits, epoch, pc, op, args, unique_ips, results, ret,
                   stats, nops>>
    /\ UNCHANGED db_path
    /\ UNCHANGED appvars

\* Every future was yielded: the executor shuts down, the results are
\* sorted into the order of unique_ips and returned.
BatchReturn(c) ==
    /\ pc[c] = "pool"
    /\ \A ip \in DOMAIN tasks[c] : tasks[c][ip].st = "done"
    /\ LET sorted == SortResults(unique_ips[c], results[c])
       IN /\ ret' = [ret EXCEPT ![c] = sorted]
          /\ stats' = [stats EXCEPT ![c] =
                          IF op[c] = "get_statistics"
                          THEN <<Statistics(args[c].ips, sorted)>> ELSE << >>]
    /\ pc' = [pc EXCEPT ![c] = "returned"]
    /\ run' = RunAfterStep(c)
    /\ UNCHANGED <<cache, hits, epoch, op, args, unique_ips, tasks, results, nops>>
    /\ UNCHANGED db_path
    /\ UNCHANGED appvars

\* The caller has used what its call returned, or handled what it raised,
\* and goes on.
Continue(c) ==
    /\ pc[c] \in {"returned", "raised"}
    /\ pc' = [pc EXCEPT ![c] = "idle"]
    /\ op' = [op EXCEPT ![c] = "none"]
    /\ args' = [args EXCEPT ![c] = NoArgs]
    /\ unique_ips' = [unique_ips EXCEPT ![c] = << >>]
    /\ tasks' = [tasks EXCEPT ![c] = NoTasks]
    /\ results' = [results EXCEPT ![c] = << >>]
    /\ ret' = [ret EXCEPT ![c] = << >>]
    /\ stats' = [stats EXCEPT ![c] = << >>]
    /\ UNCHANGED <<cache, hits, epoch, nops, run>>
    /\ UNCHANGED db_path
    /\ UNCHANGED appvars

\* One thread calls the checker, one call after the other; the worker
\* threads of a batch run concurrently.
Main == "c1"

Next ==
    \/ Continue(Main)
    \/ \E ip \in IPs, u \in BOOLEAN : CheckSingle(Main, ip, u)
    \/ CheckBatch(Main, IpLists, MaxWorkersArgs)
    \/ GetStatistics(Main, IpLists)
    \/ ClearCache(Main)
    \/ \E ip \in IPs : LookupBegin(Main, ip)
    \/ \E ip \in IPs : CachedQueryCall(Main, ip)
    \/ \E ip \in IPs : QueryDatabaseReturn(Main, ip)
    \/ SingleReturn(Main)
    \/ \E ip \in IPs : TaskDone(Main, ip)
    \/ \E ip \in IPs : TimeoutElapses(Main, ip)
    \/ BatchReturn(Main)

Spec == Init /\ [][Next]_<<vars, appvars>>

\* One thread calls check_batch with lists that hold one distinct IP, by the
\* shortcut and by the worker-pool path.
OneIpLists == {ips \in IpLists : Len(Dedupe(ips)) = 1}

NextPaths ==
    \/ Continue(Main)
    \/ CheckBatch(Main, OneIpLists, MaxWorkersArgs)
    \/ PoolPath(Main, OneIpLists, MaxWorkersArgs)
    \/ \E ip \in IPs : LookupBegin(Main, ip)
    \/ \E ip \in IPs : CachedQueryCall(Main, ip)
    \/ \E ip \in IPs : QueryDatabaseReturn(Main, ip)
    \/ SingleReturn(Main)
    \/ \E ip \in IPs : TaskDone(Main, ip)
    \/ \E ip \in IPs : TimeoutElapses(Main, ip)
    \/ BatchReturn(Main)

SpecPaths == Init /\ [][NextPaths]_<<vars, appvars>>

\* Two threads share the checker: the first makes single and batch calls, the
\* other a check_single or clear_cache call while the first one's calls are
\* under way.  A batch has two distinct IPs, so that it takes the pool path;
\* the order of its list matters to the sort only, which Spec covers.
PairLists == {<<"1.1.1.1", "8.8.8.8">>}

NextConc ==
    \/ \E c \in Callers : Continue(c)
    \/ \E c \in Callers, ip \in IPs : CheckSingle(c, ip, TRUE)
    \/ \E ip \in IPs : CheckSingle(Main, ip, FALSE)
    \/ CheckBatch(Main, PairLists, {0})
    \/ \E c \in Callers : ClearCache(c)
    \/ \E c \in Callers, ip \in IPs : LookupBegin(c, ip)
    \/ \E c \in Callers, ip \in IPs : CachedQueryCall(c, ip)
    \/ \E c \in Callers, ip \in IPs : QueryDatabaseReturn(c, ip)
    \/ \E c \in Callers : SingleReturn(c)
    \/ \E ip \in IPs : TaskDone(Main, ip)
    \/ BatchReturn(Main)

SpecConc == Init /\ [][NextConc]_<<vars, appvars>>

\* One thread makes check_single calls through the cache while another
\* switches the database.
NextUpdate ==
    \/ \E c \in Callers : Continue(c)
    \/ \E ip \in IPs : CheckSingle(Main, ip, TRUE)
    \/ \E c \in Callers \ {Main} : UpdateDatabase(c)
    \/ \E c \in Callers \ {Main} : UpdateClear(c)
    \/ \E ip \in IPs : LookupBegin(Main, ip)
    \/ \E ip \in IPs : CachedQueryCall(Main, ip)
    \/ \E ip \in IPs : QueryDatabaseReturn(Main, ip)
    \/ SingleReturn(Main)

SpecUpdate == Init /\ [][NextUpdate]_<<vars, appvars>>

\* ----------------------------------------------------- app.py: probes
\* Longest target / host string of a request.
MaxChars == 2
\* Most TXT records in a DNS answer.
MaxTxt == 2
\* Most words in the records of a TXT answer, taken together.
MaxWords == 3
\* Most selectors in a DKIM request.
MaxSel == 2

LANGS == {"zh", "en"}

\* tr_api(lang, zh_text, en_text)
TrApi(lang, zh_text, en_text) == IF lang = "zh" THEN zh_text ELSE en_text

\* A string is the sequence of its characters; "d" stands for any character
\* that is not whitespace.
Chars == {" ", "d"}

Strings == UNION {[1..n -> Chars] : n \in 0..MaxChars}

\* str.lstrip() and str.rstrip() for whitespace.
RECURSIVE LStrip(_)
LStrip(text) ==
    IF text # << >> /\ Head(text) = " " THEN LStrip(Tail(text)) ELSE text

RECURSIVE RStrip(_)
RStrip(text) ==
    IF text # << >> /\ text[Len(text)] = " "
    THEN RStrip(SubSeq(text, 1, Len(text) - 1)) ELSE text

\* Whitespace kept (for C12).
StripNothing(text) == text

\* str.strip()
Strip(text) == RStrip(LStrip(text))

\* The values a field of the JSON body can have: no such key, null, a
\* number (not 0), a string, a list of strings.
JsonAbsent == [kind |-> "absent"]
JsonNull == [kind |-> "null"]
JsonNumber == [kind |-> "number"]
JsonString(text) == [kind |-> "string", text |-> text]
JsonList(items) == [kind |-> "list", items |-> items]

EmptyString == JsonString(<< >>)

\* dict.get(key, default): the default only when the key is absent.
JsonGet(v, default) == IF v.kind = "absent" THEN default ELSE v

\* dict.get(key): None when the key is absent.
JsonGetNone(v) == JsonGet(v, JsonNull)

\* Python truth of a value; a or b.
Truthy(v) ==
    CASE v.kind = "string" -> v.text # << >>
      [] v.kind = "list" -> v.items # << >>
      [] v.kind = "number" -> TRUE
      [] OTHER -> FALSE

PyOr(a, b) == IF Truthy(a) THEN a ELSE b

\* Only str has .strip(): on None or a number the attribute access raises
\* AttributeError.
HasStrip(v) == v.kind = "string"

\* What a view function hands back: a jsonify(...) response, or an exception
\* that leaves the view (Flask answers 500).
Raised == [status |-> "raised"]

JsonError(msg) == [status |-> "json", ok |-> FALSE, error |-> msg]

JsonData(data) == [status |-> "json", ok |-> TRUE, data |-> data]

\* The outcome of a view: its response and the network operations it made.
Outcome(resp, ops) == [response |-> resp, netlog |-> ops]

\* The missing-input messages (the zh texts stand for the Chinese ones).
MissingDomainMsg(lang) ==
    TrApi(lang, "zh: missing target domain", "Missing target domain")

MissingHostMsg(lang) ==
    TrApi(lang, "zh: missing target host or domain", "Missing target host or domain")

\* What the network answers to one operation: a value, or an exception
\* whose str(e) is error.
NetOk(value) == [ok |-> TRUE, value |-> value]
NetErr(error) == [ok |-> FALSE, error |-> error]

NetErrors == {NetErr("NXDOMAIN"), NetErr("timed out")}

\* Nothing was asked of the network.
NoAnswer == [asked |-> FALSE]

\* A network operation of a probe: a DNS query, a TCP connect, a TLS
\* handshake, a forward lookup of a host name.  Names are the sequences of
\* the parts the code joins.
Resolve(t, n) == [op |-> "resolve", rtype |-> t, name |-> n]

Connect(h, p) == [op |-> "connect", host |-> h, port |-> p]

Handshake(h) == [op |-> "wrap_socket", host |-> h]

GetHostByName(h) == [op |-> "gethostbyname", host |-> h]

\* Request bodies with a target field.
Targets == {JsonAbsent, JsonNull, JsonNumber} \cup {JsonString(t) : t \in Strings}

TargetBodies == {[target |-> t] : t \in Targets}

\* The required input after .strip(): "raise" when the value has no
\* .strip(), "missing" when nothing is left, or "ok" with the stripped text.
Stripped(v) ==
    IF ~HasStrip(v) THEN [is |-> "raise"]
    ELSE IF Strip(v.text) = << >> THEN [is |-> "missing"]
    ELSE [is |-> "ok", domain |-> Strip(v.text)]

\* domain = request.json.get("target", "").strip(); if not domain: ...
DomainOf(body) == Stripped(JsonGet(body.target, EmptyString))

\* The network answers only a view that got past its input check.
AnswersIf(reached, answers) == IF reached THEN answers ELSE {NoAnswer}

AnswersFor(body, answers) == AnswersIf(DomainOf(body).is = "ok", answers)

\* ---- /api/mx
\* An MX answer: the exchange as dnspython prints it and the preference.
MxRecords ==
    {[exchange |-> <<"mx1", ".">>, preference |-> "10"],
     [exchange |-> <<"mx2", ".">>, preference |-> "20"]}

MxAnswers == {<<r1>> : r1 \in MxRecords} \cup {<<r1, r2>> : r1, r2 \in MxRecords}

\* str.rstrip(".")
RECURSIVE RStripDot(_)
RStripDot(text) ==
    IF text # << >> /\ text[Len(text)] = "."
    THEN RStripDot(SubSeq(text, 1, Len(text) - 1)) ELSE text

ApiMxOutcome(lang, body, net) ==
    LET d == DomainOf(body)
    IN CASE d.is = "raise" -> Outcome(Raised, << >>)
         [] d.is = "missing" -> Outcome(JsonError(MissingDomainMsg(lang)), << >>)
         [] OTHER ->
              LET ops == <<Resolve("MX", d.domain)>>
              IN IF net.ok
                 THEN Outcome(JsonData([i \in DOMAIN net.value |->
                                 [host |-> RStripDot(net.value[i].exchange),
                                  pref |-> net.value[i].preference]]), ops)
                 ELSE Outcome(JsonError(net.error), ops)

\* ---- /api/spf
\* A TXT record is the sequence of its words, as str(r).strip('"') gives it.
SpfWords == {"v=spf1", "include:", "-all", "~all"}

\* The records of at most w words.
WordsUpTo(w) == UNION {[1..n -> SpfWords] : n \in 0..w}

\* The answers of n records that have at most w words between them.
RECURSIVE TxtLists(_, _)
TxtLists(n, w) ==
    IF n = 0 THEN {<< >>}
    ELSE UNION {{<<r>> \o rest : rest \in TxtLists(n - 1, w - Len(r))} :
                  r \in WordsUpTo(w)}

\* A TXT answer has at least one record.
TxtAnswers == UNION {TxtLists(n, MaxWords) : n \in 1..MaxTxt}

\* str.startswith: the record begins with the word.
StartsWith(record, word) == record # << >> /\ record[1] = word

\* str.count and the in operator, on the words of the record.
CountWord(record, word) == Cardinality({i \in DOMAIN record : record[i] = word})

HasWord(record, word) == \E i \in DOMAIN record : record[i] = word

\* The last record that begins with v=spf1 (for C16).
LastSpf(txts) ==
    IF \E i \in DOMAIN txts : StartsWith(txts[i], "v=spf1")
    THEN <<txts[CHOOSE i \in DOMAIN txts :
                 /\ StartsWith(txts[i], "v=spf1")
                 /\ \A j \in DOMAIN txts : j > i => ~StartsWith(txts[j], "v=spf1")]>>
    ELSE << >>

\* next((t for t in txts if t.startswith("v=spf1")), None): a list of none
\* or one record.
FirstSpf(txts) ==
    IF \E i \in DOMAIN txts : StartsWith(txts[i], "v=spf1")
    THEN <<txts[CHOOSE i \in DOMAIN txts :
                 /\ StartsWith(txts[i], "v=spf1")
                 /\ \A j \in DOMAIN txts : j < i => ~StartsWith(txts[j], "v=spf1")]>>
    ELSE << >>

SpfPolicy(spf) ==
    IF HasWord(spf, "-all") THEN "-all"
    ELSE IF HasWord(spf, "~all") THEN "~all" ELSE "?all"

SpfNotFoundMsg(lang) == TrApi(lang, "zh: SPF record not found", "SPF record not found")

\* issues: the two localized lines, each a label and the value formatted
\* into it.
SpfIssues(lang, includes, policy) ==
    <<[label |-> TrApi(lang, "zh: include chain", "include chain"), value |-> includes],
      [label |-> TrApi(lang, "zh: policy", "policy"), value |-> policy]>>

ApiSpfOutcome(lang, body, net) ==
    LET d == DomainOf(body)
    IN CASE d.is = "raise" -> Outcome(Raised, << >>)
         [] d.is = "missing" -> Outcome(JsonError(MissingDomainMsg(lang)), << >>)
         [] OTHER ->
              LET ops == <<Resolve("TXT", d.domain)>>
                  found == IF net.ok THEN FirstSpf(net.value) ELSE << >>
              IN IF ~net.ok THEN Outcome(JsonError(net.error), ops)
                 ELSE IF found = << >> THEN Outcome(JsonError(SpfNotFoundMsg(lang)), ops)
                 ELSE LET spf == found[1]
                          includes == CountWord(spf, "include:")
                          policy == SpfPolicy(spf)
                      IN Outcome([status |-> "json", ok |-> TRUE, data |-> spf,
                                  issues |-> SpfIssues(lang, includes, policy)],
                                 ops)

\* ---- /api/dkim
\* The selectors field: absent, null, or a list of selector names.
SelectorNames == {"default", "bad"}

SelectorLists == UNION {[1..n -> SelectorNames] : n \in 0..MaxSel}

SelectorFields == {JsonAbsent, JsonNull} \cup {JsonList(l) : l \in SelectorLists}

DkimBodies == {[target |-> t, selectors |-> s] : t \in Targets, s \in SelectorFields}

\* domain = (data.get("target") or "").strip()
DkimDomainOf(body) == Stripped(PyOr(JsonGetNone(body.target), EmptyString))

\* selectors = data.get("selectors", ["default"])
DefaultSelectors == JsonList(<<"default">>)

SelectorsOf(body) == JsonGet(body.selectors, DefaultSelectors)

\* for s in selectors: only a list can be iterated here (None raises
\* TypeError).
Iterable(v) == v.kind = "list"

\* What the resolver answers for one selector: the TXT strings of the key,
\* or an exception.
DkimAnswer == NetErrors \cup {NetOk(<<"k1">>), NetOk(<<"k1", "k2">>)}

\* One answer per selector of the loop, in the order of the queries.
DkimAnswers(body) ==
    AnswersIf(DkimDomainOf(body).is = "ok" /\ Iterable(SelectorsOf(body)),
              [DOMAIN SelectorsOf(body).items -> DkimAnswer])

DkimName(s, domain) == <<s, "_domainkey", domain>>

\* The selector succeeds whatever the resolver says (for C14).
DkimEntryNoError(s, answer) ==
    [selector |-> s, pubkey |-> IF answer.ok THEN answer.value ELSE << >>]

\* One pass of the loop body: the entry appended for selector s.
DkimEntry(s, answer) ==
    IF answer.ok THEN [selector |-> s, pubkey |-> answer.value]
    ELSE [selector |-> s, error |-> answer.error]

ApiDkimOutcome(lang, body, net) ==
    LET d == DkimDomainOf(body)
        selectors == SelectorsOf(body)
    IN CASE d.is = "raise" -> Outcome(Raised, << >>)
         [] d.is = "missing" -> Outcome(JsonError(MissingDomainMsg(lang)), << >>)
         [] ~Iterable(selectors) -> Outcome(Raised, << >>)
         [] OTHER ->
              Outcome(JsonData([i \in DOMAIN selectors.items |->
                                   DkimEntry(selectors.items[i], net[i])]),
                      [i \in DOMAIN selectors.items |->
                          Resolve("TXT", DkimName(selectors.items[i], d.domain))])

\* ---- /api/dmarc
DmarcAnswers == NetErrors \cup {NetOk(<<"v=DMARC1">>), NetOk(<<"v=DMARC1", "other">>)}

DmarcName(domain) == <<"_dmarc", domain>>

ApiDmarcOutcome(lang, body, net) ==
    LET d == DomainOf(body)
    IN CASE d.is = "raise" -> Outcome(Raised, << >>)
         [] d.is = "missing" -> Outcome(JsonError(MissingDomainMsg(lang)), << >>)
         [] OTHER ->
              LET ops == <<Resolve("TXT", DmarcName(d.domain))>>
              IN IF net.ok THEN Outcome(JsonData(net.value[1]), ops)
                 ELSE Outcome(JsonError(net.error), ops)

\* ---- /api/ports
PortBodies == {[host |-> h, target |-> t] : h, t \in Targets}

\* host = (request.json.get("host") or request.json.get("target") or "").strip()
HostOf(body) ==
    Stripped(PyOr(PyOr(JsonGetNone(body.host), JsonGetNone(body.target)), EmptyString))

Ports == <<25, 465, 587, 143, 993, 110, 995>>

\* What one connect attempt does: it connects, or raises.
ConnectAnswer == {NetOk("connected"), NetErr("Connection refused")}

\* One outcome per port of the loop.
PortAnswers(body) == AnswersIf(HostOf(body).is = "ok", [DOMAIN Ports -> ConnectAnswer])

\* Every port reported reachable (for C15).
PortEntryAllOpen(p, answer) == [service |-> ToString(p), reachable |-> TRUE]

\* One pass of the loop body: the entry appended for port p.
PortEntry(p, answer) ==
    IF answer.ok THEN [service |-> ToString(p), reachable |-> TRUE]
    ELSE [service |-> ToString(p), reachable |-> FALSE, note |-> answer.error]

ApiPortsOutcome(lang, body, net) ==
    LET h == HostOf(body)
    IN CASE h.is = "raise" -> Outcome(Raised, << >>)
         [] h.is = "missing" -> Outcome(JsonError(MissingHostMsg(lang)), << >>)
         [] OTHER ->
              Outcome(JsonData([i \in DOMAIN Ports |-> PortEntry(Ports[i], net[i])]),
                      [i \in DOMAIN Ports |-> Connect(h.domain, Ports[i])])

\* ---- /api/tls
SmtpsPort == 465

\* The subject of the peer certificate, as (key, value) pairs.
Subjects ==
    {<< >>,
     <<<<"commonName", "mail">>>>,
     <<<<"organizationName", "org">>, <<"commonName", "mail">>>>}

\* The connect fails, the handshake fails, or the session is up with a TLS
\* version and a certificate subject.
TlsAnswers ==
    {[connect |-> e] : e \in NetErrors}
    \cup {[connect |-> NetOk("connected"), handshake |-> e] : e \in NetErrors}
    \cup {[connect |-> NetOk("connected"),
           handshake |-> NetOk([version |-> "TLSv1.3", subject |-> s])] : s \in Subjects}

\* The first commonName of the subject, or (unknown).
CertCN(subject) ==
    IF \E i \in DOMAIN subject : subject[i][1] = "commonName"
    THEN subject[CHOOSE i \in DOMAIN subject :
                    /\ subject[i][1] = "commonName"
                    /\ \A j \in DOMAIN subject : j < i => subject[j][1] # "commonName"][2]
    ELSE "(unknown)"

ApiTlsOutcome(lang, body, net) ==
    LET d == DomainOf(body)
    IN CASE d.is = "raise" -> Outcome(Raised, << >>)
         [] d.is = "missing" -> Outcome(JsonError(MissingDomainMsg(lang)), << >>)
         [] ~net.connect.ok ->
              Outcome(JsonError(net.connect.error), <<Connect(d.domain, SmtpsPort)>>)
         [] OTHER ->
              LET ops == <<Connect(d.domain, SmtpsPort), Handshake(d.domain)>>
              IN IF ~net.handshake.ok THEN Outcome(JsonError(net.handshake.error), ops)
                 ELSE Outcome(JsonData([starttls |-> FALSE,
                                        minVersion |-> net.handshake.value.version,
                                        certCN |-> CertCN(net.handshake.value.subject),
                                        weakCiphers |-> 0]), ops)

\* ---- /api/dnsbl
\* An IPv4 address is the sequence of its four octets.
HostIps == {<<"192", "0", "2", "1">>, <<"10", "0", "0", "10">>}

\* reversed(ip.split("."))
Reversed(seq) == [i \in DOMAIN seq |-> seq[Len(seq) + 1 - i]]

Bls == <<"zen.spamhaus.org", "bl.spamcop.net", "dnsbl.sorbs.net", "b.barracudacentral.org">>

\* What a zone answers: an A record, or an exception.
ZoneAnswer == NetErrors \cup {NetOk("127.0.0.2")}

\* The forward lookup fails, or gives the address and every zone answers.
DnsblAnswers ==
    {[host |-> e] : e \in NetErrors}
    \cup {[host |-> NetOk(ip), zones |-> z] : ip \in HostIps, z \in [DOMAIN Bls -> ZoneAnswer]}

BlName(ip, bl) == <<Reversed(ip), bl>>

\* A zone that failed counted as listed (for C17).
ListedCountAll(zones) == Len(zones)

\* listed: the zones whose query did not raise.
ListedCount(zones) == Cardinality({i \in DOMAIN zones : zones[i].ok})

ApiDnsblOutcome(lang, body, net) ==
    LET d == DomainOf(body)
    IN CASE d.is = "raise" -> Outcome(Raised, << >>)
         [] d.is = "missing" -> Outcome(JsonError(MissingDomainMsg(lang)), << >>)
         [] ~net.host.ok -> Outcome(JsonError(net.host.error), <<GetHostByName(d.domain)>>)
         [] OTHER ->
              Outcome(JsonData([checked |-> Len(Bls), listed |-> ListedCount(net.zones)]),
                      <<GetHostByName(d.domain)>>
                         \o [i \in DOMAIN Bls |->
                                Resolve("A", BlName(net.host.value, Bls[i]))])

\* ---- /api/ptr
PtrAnswers ==
    {[host |-> e] : e \in NetErrors}
    \cup {[host |-> NetOk(ip), ptr |-> p] :
            ip \in HostIps, p \in NetErrors \cup {NetOk(<<"mail", ".">>)}}

\* dns.reversename.from_address(ip)
ReverseName(ip) == <<Reversed(ip), "in-addr.arpa.">>

ApiPtrOutcome(lang, body, net) ==
    LET d == DomainOf(body)
    IN CASE d.is = "raise" -> Outcome(Raised, << >>)
         [] d.is = "missing" -> Outcome(JsonError(MissingDomainMsg(lang)), << >>)
         [] ~net.host.ok -> Outcome(JsonError(net.host.error), <<GetHostByName(d.domain)>>)
         [] OTHER ->
              LET ops == <<GetHostByName(d.domain),
                           Resolve("PTR", ReverseName(net.host.value))>>
              IN IF net.ptr.ok
                 THEN Outcome(JsonData([ip |-> net.host.value,
                                        ptr |-> RStripDot(net.ptr.value)]), ops)
                 ELSE Outcome(JsonError(net.ptr.error), ops)

\* ---- the views as steps
\* A view answers one request: request is what it was asked (probe, the
\* language of the request, the JSON body) and what the network answers.
Request(probe, lang, body, net) ==
    [probe |-> probe, lang |-> lang, body |-> body, net |-> net]

\* The server is between two requests.
NoRequestNow == request.probe = "none"

\* The view returns (or raises) and the classifier is left alone.
Respond(out) ==
    /\ response' = out.response
    /\ netlog' = out.netlog
    /\ UNCHANGED <<facvars, singvars, locvars>>
    /\ UNCHANGED vars

ApiMx ==
    /\ NoRequestNow
    /\ \E lang \in LANGS, body \in TargetBodies :
       \E net \in AnswersFor(body, NetErrors \cup {NetOk(a) : a \in MxAnswers}) :
          /\ request' = Request("mx", lang, body, net)
          /\ Respond(ApiMxOutcome(lang, body, net))

ApiSpf ==
    /\ NoRequestNow
    /\ \E lang \in LANGS, body \in TargetBodies :
       \E net \in AnswersFor(body, NetErrors \cup {NetOk(a) : a \in TxtAnswers}) :
          /\ request' = Request("spf", lang, body, net)
          /\ Respond(ApiSpfOutcome(lang, body, net))

ApiDkim ==
    /\ NoRequestNow
    /\ \E lang \in LANGS, body \in DkimBodies :
       \E net \in DkimAnswers(body) :
          /\ request' = Request("dkim", lang, body, net)
          /\ Respond(ApiDkimOutcome(lang, body, net))

ApiDmarc ==
    /\ NoRequestNow
    /\ \E lang \in LANGS, body \in TargetBodies :
       \E net \in AnswersFor(body, DmarcAnswers) :
          /\ request' = Request("dmarc", lang, body, net)
          /\ Respond(ApiDmarcOutcome(lang, body, net))

ApiPorts ==
    /\ NoRequestNow
    /\ \E lang \in LANGS, body \in PortBodies :
       \E net \in PortAnswers(body) :
          /\ request' = Request("ports", lang, body, net)
          /\ Respond(ApiPortsOutcome(lang, body, net))

ApiTls ==
    /\ NoRequestNow
    /\ \E lang \in LANGS, body \in TargetBodies :
       \E net \in AnswersFor(body, TlsAnswers) :
          /\ request' = Request("tls", lang, body, net)
          /\ Respond(ApiTlsOutcome(lang, body, net))

ApiDnsbl ==
    /\ NoRequestNow
    /\ \E lang \in LANGS, body \in TargetBodies :
       \E net \in AnswersFor(body, DnsblAnswers) :
          /\ request' = Request("dnsbl", lang, body, net)
          /\ Respond(ApiDnsblOutcome(lang, body, net))

ApiPtr ==
    /\ NoRequestNow
    /\ \E lang \in LANGS, body \in TargetBodies :
       \E net \in AnswersFor(body, PtrAnswers) :
          /\ request' = Request("ptr", lang, body, net)
          /\ Respond(ApiPtrOutcome(lang, body, net))

\* The response has been sent.
RequestDone ==
    /\ ~NoRequestNow
    /\ request' = NoRequest
    /\ response' = NoResponse
    /\ netlog' = << >>
    /\ UNCHANGED <<facvars, singvars, locvars>>
    /\ UNCHANGED vars

NextProbe ==
    \/ ApiMx
    \/ ApiSpf
    \/ ApiDkim
    \/ ApiDmarc
    \/ ApiPorts
    \/ ApiTls
    \/ ApiDnsbl
    \/ ApiPtr
    \/ RequestDone

SpecProbe == Init /\ [][NextProbe]_<<vars, appvars>>

\* ------------------------------------------- app.py: the facade's TTL cache
\* Last reading of the clock, in half hours.
MaxTicks == 3

\* _cache_expiry = timedelta(hours=1), in half hours.
CacheExpiry == 2

\* ip_address in _ip_cache
InIpCache(ip) == ip_cache[ip] # NoEntry

\* Every entry counted as fresh (for C19).
IsFreshAlways(entry, now) == TRUE

\* now - ts < _cache_expiry
IsFresh(entry, now) == now - entry.ts < CacheExpiry

\* _ip_cache[ip_address] = (result, now)
Entry(result, now) == [result |-> result, ts |-> now]

\* is_cn = info.get("is_china", False) and not info.get("error")
IsCn(info) == info.is_china /\ info.error = None

\* init_ip_checker(), run once when the module is loaded: _ip_checker is
\* the ChinaIPChecker, or None when its construction raised.
InitIpChecker ==
    /\ ip_checker = "unset"
    /\ ip_checker' \in {"ChinaIPChecker", None}
    /\ UNCHANGED <<ip_cache, clock, fcall, probevars>>
    /\ UNCHANGED <<singvars, locvars>>
    /\ UNCHANGED vars

\* Time passes.
Tick ==
    /\ clock < MaxTicks
    /\ clock' = clock + 1
    /\ UNCHANGED <<ip_checker, ip_cache, fcall, probevars>>
    /\ UNCHANGED <<singvars, locvars>>
    /\ UNCHANGED vars

\* is_china_ip(ip_address) up to the call of the classifier: a fresh entry
\* is returned; without classifier false is stored and returned.  calls
\* records the classifier calls the thread had made before.
IsChinaIp(c, ip) ==
    /\ ip_checker # "unset"
    /\ fcall[c].pc = "idle" /\ pc[c] = "idle"
    /\ LET now == clock
           call == [pc |-> "returned", ip |-> ip, now |-> now,
                    seen |-> ip_cache[ip], calls |-> nops[c], ret |-> FALSE]
       IN IF InIpCache(ip) /\ IsFresh(ip_cache[ip], now)
          THEN /\ fcall' = [fcall EXCEPT ![c] = [call EXCEPT !.ret = ip_cache[ip].result]]
               /\ UNCHANGED ip_cache
          ELSE IF ip_checker # None
          THEN /\ fcall' = [fcall EXCEPT ![c] = [call EXCEPT !.pc = "consult"]]
               /\ UNCHANGED ip_cache
          ELSE /\ fcall' = [fcall EXCEPT ![c] = call]
               /\ ip_cache' = [ip_cache EXCEPT ![ip] = Entry(FALSE, now)]
    /\ UNCHANGED <<ip_checker, clock, probevars>>
    /\ UNCHANGED <<singvars, locvars>>
    /\ UNCHANGED vars

\* info = _ip_checker.check_single(ip_address)
Consult(c) ==
    /\ fcall[c].pc = "consult"
    /\ CheckSingle(c, fcall[c].ip, TRUE)

\* check_single has returned (or raised): the result is stored with the now
\* of the call and returned; after an exception false is.
StoreResult(c) ==
    /\ fcall[c].pc = "consult"
    /\ pc[c] \in {"returned", "raised"}
    /\ LET is_cn == IF pc[c] = "returned" THEN IsCn(ret[c][1]) ELSE FALSE
       IN /\ ip_cache' = [ip_cache EXCEPT ![fcall[c].ip] = Entry(is_cn, fcall[c].now)]
          /\ fcall' = [fcall EXCEPT ![c].pc = "returned", ![c].ret = is_cn]
    /\ UNCHANGED <<ip_checker, clock, probevars>>
    /\ UNCHANGED <<singvars, locvars>>
    /\ UNCHANGED vars

\* The caller of is_china_ip goes on; the result of check_single is dropped.
CallerContinue(c) ==
    /\ fcall[c].pc = "returned"
    /\ Continue(c)

FacadeReturn(c) ==
    /\ fcall[c].pc = "returned" /\ pc[c] = "idle"
    /\ fcall' = [fcall EXCEPT ![c] = NoCall]
    /\ UNCHANGED <<ip_checker, ip_cache, clock, probevars>>
    /\ UNCHANGED <<singvars, locvars>>
    /\ UNCHANGED vars

\* One thread serves the requests, one after the other, while time passes.
NextFacade ==
    \/ InitIpChecker
    \/ Tick
    \/ \E ip \in IPs : IsChinaIp(Main, ip)
    \/ Consult(Main)
    \/ \E ip \in IPs : LookupBegin(Main, ip)
    \/ \E ip \in IPs : CachedQueryCall(Main, ip)
    \/ \E ip \in IPs : QueryDatabaseReturn(Main, ip)
    \/ SingleReturn(Main)
    \/ StoreResult(Main)
    \/ CallerContinue(Main)
    \/ FacadeReturn(Main)

SpecFacade == Init /\ [][NextFacade]_<<vars, appvars>>

\* --------------------------------- china_ip_checker.py: the singleton
\* The db_path arguments of the get_china_ip_checker calls.
DbPaths == {OldDb, NewDb}

\* The lock taken whoever holds it (for C23).
LockFreeAlways == TRUE

\* _checker_lock can be acquired.
LockFree == checker_lock = None

\* get_china_ip_checker(db_path=path) is called and reaches the with
\* statement.
GetChinaIpChecker(c, path) ==
    /\ gcall[c].pc = "idle"
    /\ gcall[c].calls < MaxOps
    /\ gcall' = [gcall EXCEPT ![c] = [pc |-> "wait", db_path |-> path, ret |-> NoInstance,
                                      calls |-> @.calls + 1]]
    /\ UNCHANGED <<china_ip_checker, checker_lock, instances>>
    /\ UNCHANGED <<probevars, facvars, locvars>>
    /\ UNCHANGED vars

\* with _checker_lock: the lock is acquired.
AcquireLock(c) ==
    /\ gcall[c].pc = "wait"
    /\ LockFree
    /\ checker_lock' = c
    /\ gcall' = [gcall EXCEPT ![c].pc = "locked"]
    /\ UNCHANGED <<china_ip_checker, instances>>
    /\ UNCHANGED <<probevars, facvars, locvars>>
    /\ UNCHANGED vars

\* if _china_ip_checker is None
CheckUnset(c) ==
    /\ gcall[c].pc = "locked"
    /\ gcall' = [gcall EXCEPT ![c].pc =
                    IF china_ip_checker = NoInstance THEN "construct" ELSE "return"]
    /\ UNCHANGED <<china_ip_checker, checker_lock, instances>>
    /\ UNCHANGED <<probevars, facvars, locvars>>
    /\ UNCHANGED vars

\* _china_ip_checker = ChinaIPChecker(**kwargs): __init__ raises
\* FileNotFoundError when the database file is not there, the with
\* statement releases the lock and nothing is assigned.
Construct(c) ==
    /\ gcall[c].pc = "construct"
    /\ \E exists \in BOOLEAN :
          IF exists
          THEN /\ instances' = instances + 1
               /\ china_ip_checker' = [id |-> instances + 1, db_path |-> gcall[c].db_path]
               /\ gcall' = [gcall EXCEPT ![c].pc = "return"]
               /\ UNCHANGED checker_lock
          ELSE /\ gcall' = [gcall EXCEPT ![c].pc = "raised"]
               /\ checker_lock' = None
               /\ UNCHANGED <<china_ip_checker, instances>>
    /\ UNCHANGED <<probevars, facvars, locvars>>
    /\ UNCHANGED vars

\* return _china_ip_checker, and the with statement releases the lock.
ReturnChecker(c) ==
    /\ gcall[c].pc = "return"
    /\ gcall' = [gcall EXCEPT ![c].pc = "returned", ![c].ret = china_ip_checker]
    /\ checker_lock' = None
    /\ UNCHANGED <<china_ip_checker, instances>>
    /\ UNCHANGED <<probevars, facvars, locvars>>
    /\ UNCHANGED vars

\* The caller goes on.
GetterContinue(c) ==
    /\ gcall[c].pc \in {"returned", "raised"}
    /\ gcall' = [gcall EXCEPT ![c].pc = "idle", ![c].ret = NoInstance]
    /\ UNCHANGED <<china_ip_checker, checker_lock, instances>>
    /\ UNCHANGED <<probevars, facvars, locvars>>
    /\ UNCHANGED vars

\* The threads of the process call get_china_ip_checker.
NextSingleton ==
    \/ \E c \in Callers, path \in DbPaths : GetChinaIpChecker(c, path)
    \/ \E c \in Callers : AcquireLock(c)
    \/ \E c \in Callers : CheckUnset(c)
    \/ \E c \in Callers : Construct(c)
    \/ \E c \in Callers : ReturnChecker(c)
    \/ \E c \in Callers : GetterContinue(c)

SpecSingleton == Init /\ [][NextSingleton]_<<vars, appvars>>

\* ------------------------------------- app.py: detect_ip_and_language
\* A request of client ip arrives and before_request runs in the thread.
RequestArrives(c, ip) ==
    /\ greq[c].pc = "idle"
    /\ fcall[c].pc = "idle" /\ pc[c] = "idle"
    /\ ip_checker # "unset"
    /\ greq' = [greq EXCEPT ![c] = [pc |-> "classify", ip |-> ip, own |-> FALSE,
                                    lang |-> None]]
    /\ UNCHANGED IS_CHINA_IP
    /\ UNCHANGED <<probevars, facvars, singvars>>
    /\ UNCHANGED vars

\* is_china_ip(client_ip) is called.
Classify(c) ==
    /\ greq[c].pc = "classify"
    /\ IsChinaIp(c, greq[c].ip)

\* IS_CHINA_IP = is_china_ip(client_ip): the module-level flag is written.
StoreFlag(c) ==
    /\ greq[c].pc = "classify"
    /\ fcall[c].pc = "returned"
    /\ IS_CHINA_IP' = fcall[c].ret
    /\ greq' = [greq EXCEPT ![c].pc = "stored", ![c].own = fcall[c].ret]
    /\ UNCHANGED <<probevars, facvars, singvars>>
    /\ UNCHANGED vars

\* "zh" if IS_CHINA_IP else "en": the module-level flag is read.
LangOf(c) == IF IS_CHINA_IP THEN "zh" ELSE "en"

\* g.lang = "zh" if IS_CHINA_IP else "en"
AssignLang(c) ==
    /\ greq[c].pc = "stored"
    /\ greq' = [greq EXCEPT ![c].pc = "done", ![c].lang = LangOf(c)]
    /\ UNCHANGED IS_CHINA_IP
    /\ UNCHANGED <<probevars, facvars, singvars>>
    /\ UNCHANGED vars

\* The locals of is_china_ip are gone.
ClassifyOver(c) ==
    /\ greq[c].pc \in {"stored", "done"}
    /\ FacadeReturn(c)

\* The request has been answered.
RequestEnd(c) ==
    /\ greq[c].pc = "done"
    /\ fcall[c].pc = "idle"
    /\ greq' = [greq EXCEPT ![c] = NoDetect]
    /\ UNCHANGED IS_CHINA_IP
    /\ UNCHANGED <<probevars, facvars, singvars>>
    /\ UNCHANGED vars

\* Two threads of the server handle requests at the same time.
NextLocale ==
    \/ InitIpChecker
    \/ \E c \in Callers, ip \in IPs : RequestArrives(c, ip)
    \/ \E c \in Callers : Classify(c)
    \/ \E c \in Callers : Consult(c)
    \/ \E c \in Callers, ip \in IPs : LookupBegin(c, ip)
    \/ \E c \in Callers, ip \in IPs : CachedQueryCall(c, ip)
    \/ \E c \in Callers, ip \in IPs : QueryDatabaseReturn(c, ip)
    \/ \E c \in Callers : SingleReturn(c)
    \/ \E c \in Callers : StoreResult(c)
    \/ \E c \in Callers : CallerContinue(c)
    \/ \E c \in Callers : StoreFlag(c)
    \/ \E c \in Callers : AssignLang(c)
    \/ \E c \in Callers : ClassifyOver(c)
    \/ \E c \in Callers : RequestEnd(c)

SpecLocale == Init /\ [][NextLocale]_<<vars, appvars>>

\* ----------------------------------------------------------------- claims
Range(seq) == {seq[i] : i \in DOMAIN seq}

ResultIps(rs) == [i \in DOMAIN rs |-> rs[i].ip]

FirstIndex(seq, x) == CHOOSE i \in DOMAIN seq : seq[i] = x /\ \A j \in 1..(i - 1) : seq[j] # x

\* out lists every element of ips once, in the order of first occurrence.
IsFirstOccurrenceOrder(out, ips) ==
    /\ Range(out) = Range(ips)
    /\ \A i, j \in DOMAIN out :
          i < j => out[i] # out[j] /\ FirstIndex(ips, out[i]) < FirstIndex(ips, out[j])

BatchReturned(c) == pc[c] = "returned" /\ op[c] \in {"check_batch", "get_statistics"}

\* C1: a check_batch call that has returned holds exactly one result per
\* distinct IP of ips, in the order of the first occurrences in ips,
\* whatever the order in which the worker tasks finished.
C1_BatchOrder ==
    \A c \in Callers :
       (pc[c] = "returned" /\ op[c] = "check_batch")
          => IsFirstOccurrenceOrder(ResultIps(ret[c]), args[c].ips)

\* A batch with a repeated IP whose tasks finished in the other order.
C1_Witness ==
    \E c \in Callers :
       /\ pc[c] = "returned" /\ op[c] = "check_batch"
       /\ Len(args[c].ips) = 3 /\ Len(ret[c]) = 2
       /\ results[c] # ret[c]

\* The error text the claim names for a task that ran out of time.
TimeoutError == "timeout"

\* C2: in a batch of two or more distinct IPs that has returned, the result
\* of every IP whose lookup took longer than the timeout carries
\* error="timeout" and in_target_region=false.
C2_TimeoutYieldsError ==
    \A c \in Callers :
       (BatchReturned(c) /\ Len(unique_ips[c]) >= 2)
          => \A i \in DOMAIN ret[c] :
                tasks[c][ret[c][i].ip].late
                   => ret[c][i].error = TimeoutError /\ ~ret[c][i].is_china

\* C3: no call raises to its caller, and a result without a country code
\* carries an error and in_target_region=false.
C3_NeverRaises ==
    \A c \in Callers :
       /\ pc[c] # "raised"
       /\ \A i \in DOMAIN ret[c] :
             ret[c][i].country_code = None
                => ret[c][i].error # None /\ ~ret[c][i].is_china

\* Every result dict a call has returned or a finished task has produced.
AllResults(c) == Range(ret[c]) \cup Range(results[c])

\* C4: in every result produced, on the hit path, the miss path and the
\* error path, is_china is true only if country_code is 'CN' and error is
\* absent.
C4_InRegionOnlyIfTarget ==
    \A c \in Callers :
       \A r \in AllResults(c) : r.is_china => r.country_code = "CN" /\ r.error = None

\* A batch that returned an in-region result served from the cache, a
\* foreign result and (in the same or another position) no error for the
\* in-region one.
C4_Witness ==
    \E c \in Callers :
       /\ pc[c] = "returned" /\ op[c] = "check_batch"
       /\ \E i, j \in DOMAIN ret[c] :
             /\ ret[c][i].is_china /\ ret[c][i].cached
             /\ ~ret[c][j].is_china /\ ret[c][j].country_code = "US"

\* C5: when a caller makes two check_single calls of one IP back to back
\* (the second with the cache in use, no clear and no other call between
\* them), the second returns the country_code and error of the first and
\* cached = true.
C5_ConsecutiveSingle ==
    [][\A c \in Callers :
          (pc[c] = "single" /\ pc'[c] = "returned" /\ run.by = c /\ run.n >= 1)
             => /\ ret'[c][1].country_code = run.pair[1]
                /\ ret'[c][1].error = run.pair[2]
                /\ ret'[c][1].cached]_vars

\* The second of two back-to-back calls has returned a memoized error.
C5_Witness ==
    /\ run.n >= 2
    /\ pc[run.by] = "returned"
    /\ ret[run.by][1].cached
    /\ ret[run.by][1].error # None

\* C6: the cache never holds more than cache_size entries, and a call of
\* the cached query for an IP that has an entry (stored by a completed
\* lookup, neither evicted nor cleared since) returns the pair of that
\* entry, success or error alike, without a database query.
C6_Memoized ==
    /\ [](Len(cache) <= CacheSize)
    /\ [][\A c \in Callers : \A ip \in DOMAIN tasks[c] :
             (tasks[c][ip].st = "call" /\ ip \in DOMAIN tasks'[c]
                 /\ tasks'[c][ip].st # "call" /\ ip \in CacheKeys(cache))
                => /\ tasks'[c][ip].st = "got"
                   /\ tasks'[c][ip].pair = CacheGet(cache, ip).pair
                   /\ tasks'[c][ip].queries = 0
                   /\ ip \in CacheKeys(cache')]_vars

\* A lookup was served a memoized error from a full cache.
C6_Witness ==
    \E c \in Callers : \E ip \in DOMAIN tasks[c] :
       /\ tasks[c][ip].st = "got"
       /\ tasks[c][ip].hit /\ tasks[c][ip].queries = 0
       /\ tasks[c][ip].pair[2] # None
       /\ Len(cache) = CacheSize

\* C7: a check_single or check_batch call with use_cache=false that has
\* returned queried the database for every distinct IP of the call and was
\* served no entry of the cache.
C7_UncachedQueriesAll ==
    \A c \in Callers :
       (pc[c] = "returned" /\ op[c] \in {"check_single", "check_batch", "get_statistics"}
           /\ ~args[c].use_cache)
          => \A ip \in DOMAIN tasks[c] : tasks[c][ip].queries = 1 /\ ~tasks[c][ip].hit

\* C8: a lookup that began after a clear (began counts the clears that had
\* returned) is never served an entry stored before that clear (served is
\* the number of clears that preceded the entry's insertion).
C8_ClearVisible ==
    \A c \in Callers : \A ip \in DOMAIN tasks[c] :
       tasks[c][ip].hit => tasks[c][ip].served >= tasks[c][ip].began

\* clear_cache has returned to one caller, and a lookup of the other that
\* began afterwards was served an entry stored after the clear.
C8_Witness ==
    \E c, d \in Callers : \E ip \in DOMAIN tasks[c] :
       /\ c # d
       /\ op[d] = "clear_cache" /\ pc[d] = "returned"
       /\ tasks[c][ip].hit /\ tasks[c][ip].began >= 1

ZeroStatistics ==
    [total |-> 0, china_ips |-> 0, foreign_ips |-> 0, error_ips |-> 0,
     cached_ips |-> 0, china_percentage |-> 0, cache_hit_rate |-> 0]

\* C9: check_batch([]) returns the empty list and get_statistics([])
\* returns total 0, all counts 0 and 0 for both percentages; neither raises.
C9_EmptyInput ==
    \A c \in Callers :
       (op[c] \in {"check_batch", "get_statistics"} /\ args[c].ips = << >>)
          => /\ pc[c] = "returned"
             /\ ret[c] = << >>
             /\ op[c] = "get_statistics" => stats[c] = <<ZeroStatistics>>

\* get_statistics([]) has returned.
C9_Witness ==
    \E c \in Callers :
       /\ op[c] = "get_statistics" /\ args[c].ips = << >>
       /\ pc[c] = "returned" /\ Len(stats[c]) = 1

StatisticsReturned(c) == pc[c] = "returned" /\ op[c] = "get_statistics"

ScenarioIps == <<"1.1.1.1", "1.1.1.1", "8.8.8.8">>

\* The lookups of the scenario found 1.1.1.1 in the target region and
\* 8.8.8.8 in another country.
ScenarioAnswers(c) ==
    /\ tasks[c]["1.1.1.1"].pair = <<"CN", None>>
    /\ tasks[c]["8.8.8.8"].pair = <<"US", None>>

HasDuplicate(ips) == Len(ips) > Cardinality(Range(ips))

\* C11 as stated: get_statistics of a list in which an IP appears twice
\* reports cached_ips >= 1.
C11_DuplicateCountsAsHit ==
    \A c \in Callers :
       (StatisticsReturned(c) /\ HasDuplicate(args[c].ips))
          => stats[c][1].cached_ips >= 1

\* C11 amended: a duplicate is removed before any lookup and adds no cache
\* hit: cached_ips is the number of returned results (one per distinct IP)
\* that carry cached = true, at most total, and it is 0 when the cache
\* served none of the distinct IPs and no other call used the checker
\* meanwhile.
C11_CachedCount ==
    \A c \in Callers :
       StatisticsReturned(c)
          => /\ stats[c][1].cached_ips
                   = Cardinality({i \in DOMAIN ret[c] : ret[c][i].cached})
             /\ Len(ret[c]) = Cardinality(Range(args[c].ips))
             /\ stats[c][1].cached_ips <= stats[c][1].total
             /\ (\A ip \in DOMAIN tasks[c] : ~tasks[c][ip].hit)
                   => stats[c][1].cached_ips = 0

\* get_statistics of the scenario's list has returned cached_ips = 0.
C11_Witness ==
    \E c \in Callers :
       /\ StatisticsReturned(c)
       /\ args[c].ips = ScenarioIps
       /\ stats[c][1].total = 2 /\ stats[c][1].cached_ips = 0

LookupReturned(c) ==
    pc[c] = "returned" /\ op[c] \in {"check_single", "check_batch", "get_statistics"}

\* C20: in every result a call returned, cached is true if and only if
\* the lookup of that IP was served from the cache (no database query).
C20_CachedFlagIsOwnHit ==
    \A c \in Callers :
       LookupReturned(c)
          => \A i \in DOMAIN ret[c] :
                ret[c][i].cached <=> tasks[c][ret[c][i].ip].hit

\* C18: a check_batch call of a list with one distinct IP ends the same way
\* by the shortcut and by the worker-pool path: it returns (it does not
\* raise), and what it returns is the one result that the IP, the pair the
\* cached query gave and whether the cache served it determine.
C18_FastPathEqualsPool ==
    \A c \in Callers :
       (op[c] \in {"check_batch", "pool_path"} /\ pc[c] \in {"returned", "raised"}
           /\ Len(unique_ips[c]) = 1)
          => /\ pc[c] = "returned"
             /\ LET ip == unique_ips[c][1]
                IN ret[c] = <<MakeResult(ip, tasks[c][ip].pair, tasks[c][ip].hit)>>

\* ------------------------------------------------------- claims: probes
Answered == request.probe # "none"

\* A field that is not there, or a string of nothing but whitespace.
Blank(v) ==
    \/ v.kind = "absent"
    \/ v.kind = "string" /\ \A i \in DOMAIN v.text : v.text[i] = " "

\* The required input of the request is missing: for the port probe neither
\* host nor target is given.
TargetBlank ==
    IF request.probe = "ports"
    THEN Blank(request.body.host) /\ Blank(request.body.target)
    ELSE Blank(request.body.target)

\* A string with a character that is not whitespace.
Given(v) == v.kind = "string" /\ ~Blank(v)

\* C12: a request to any of the eight probes whose required target is
\* absent, empty or whitespace-only is answered with ok = false and the
\* missing-input message in the language of the request, and the probe made
\* no DNS, TCP or TLS operation.
C12_MissingTarget ==
    (Answered /\ TargetBlank)
       => /\ response.status = "json" /\ ~response.ok
          /\ response.error
                = IF request.probe = "ports"
                  THEN IF request.lang = "zh" THEN "zh: missing target host or domain"
                                              ELSE "Missing target host or domain"
                  ELSE IF request.lang = "zh" THEN "zh: missing target domain"
                                              ELSE "Missing target domain"
          /\ netlog = << >>

\* The DNSBL probe answered a target of two spaces.
C12_Witness ==
    /\ request.probe = "dnsbl"
    /\ request.body.target = JsonString(<<" ", " ">>)
    /\ response.status = "json" /\ netlog = << >>

\* C13: every request to a probe is answered with a result that has the ok
\* discriminator (the view does not raise), and a result with ok = false has
\* a non-empty error.
C13_ProbeNeverRaises ==
    Answered
       => /\ response.status = "json"
          /\ response.ok \in BOOLEAN
          /\ ~response.ok => response.error # ""

\* The selector list the DKIM request asks for: the field's list, or
\* ["default"] when the field is absent.
RequestedSelectors ==
    IF request.body.selectors.kind = "absent" THEN <<"default">>
    ELSE request.body.selectors.items

\* C14: the DKIM probe, for a non-empty target and a selector list (or no
\* selectors field), answers ok = true with one entry per requested
\* selector in request order: {selector, pubkey} for a selector whose TXT
\* query resolved and {selector, error} for one whose query failed, each
\* entry depending on its own query only.
C14_DkimPerSelector ==
    (request.probe = "dkim" /\ Given(request.body.target)
        /\ request.body.selectors.kind \in {"absent", "list"})
       => /\ response.status = "json" /\ response.ok
          /\ Len(response.data) = Len(RequestedSelectors)
          /\ Len(netlog) = Len(RequestedSelectors)
          /\ \A i \in DOMAIN RequestedSelectors :
                /\ response.data[i].selector = RequestedSelectors[i]
                /\ netlog[i].name[1] = RequestedSelectors[i]
                /\ IF request.net[i].ok
                   THEN /\ DOMAIN response.data[i] = {"selector", "pubkey"}
                        /\ response.data[i].pubkey = request.net[i].value
                   ELSE /\ DOMAIN response.data[i] = {"selector", "error"}
                        /\ response.data[i].error = request.net[i].error

\* Selectors ["default", "bad"]: the first resolved, the second did not.
C14_Witness ==
    /\ request.probe = "dkim"
    /\ request.body.selectors = JsonList(<<"default", "bad">>)
    /\ response.status = "json" /\ response.ok
    /\ "pubkey" \in DOMAIN response.data[1]
    /\ "error" \in DOMAIN response.data[2]

\* The port request names a host: in host, or in target when host is not
\* there, null or empty.
HostGiven ==
    \/ Given(request.body.host)
    \/ /\ request.body.host \in {JsonAbsent, JsonNull, EmptyString}
       /\ Given(request.body.target)

\* C15: the port probe, for every host and every combination of connect
\* outcomes, answers ok = true with 7 entries in the order 25, 465, 587,
\* 143, 993, 110, 995; each entry's reachable is the outcome of the connect
\* to its own port, and a failed port carries the error as note.
C15_PortsAllReported ==
    (request.probe = "ports" /\ HostGiven)
       => LET services == <<"25", "465", "587", "143", "993", "110", "995">>
          IN /\ response.status = "json" /\ response.ok
             /\ Len(response.data) = 7
             /\ Len(netlog) = 7
             /\ \A i \in 1..7 :
                   /\ response.data[i].service = services[i]
                   /\ ToString(netlog[i].port) = services[i]
                   /\ response.data[i].reachable = request.net[i].ok
                   /\ IF request.net[i].ok
                      THEN DOMAIN response.data[i] = {"service", "reachable"}
                      ELSE /\ DOMAIN response.data[i] = {"service", "reachable", "note"}
                           /\ response.data[i].note = request.net[i].error

\* Port 25 closed and port 587 open.
C15_Witness ==
    /\ request.probe = "ports"
    /\ response.status = "json" /\ response.ok
    /\ ~response.data[1].reachable
    /\ response.data[3].reachable

\* The SPF probe got a TXT answer.
SpfAnswered ==
    request.probe = "spf" /\ Given(request.body.target) /\ request.net.ok

SpfRecordIndexes ==
    {i \in DOMAIN request.net.value :
        request.net.value[i] # << >> /\ request.net.value[i][1] = "v=spf1"}

\* The result the claim describes for the TXT answer, with not_found the
\* error of an answer without SPF record.
SpfResultIs(not_found) ==
    IF SpfRecordIndexes = {}
    THEN response = JsonError(not_found)
    ELSE LET first == CHOOSE i \in SpfRecordIndexes : \A j \in SpfRecordIndexes : i <= j
             spf == request.net.value[first]
         IN /\ response.status = "json" /\ response.ok
            /\ response.data = spf
            /\ response.issues[1].value
                  = Cardinality({k \in DOMAIN spf : spf[k] = "include:"})
            /\ response.issues[2].value
                  = IF \E k \in DOMAIN spf : spf[k] = "-all" THEN "-all"
                    ELSE IF \E k \in DOMAIN spf : spf[k] = "~all" THEN "~all"
                    ELSE "?all"

C16_WitnessPolicy ==
    /\ SpfAnswered
    /\ request.net.value = <<<<"v=spf1", "~all", "-all">>>>
    /\ response.status = "json" /\ response.issues[2].value = "-all"

\* The DNSBL probe got as far as the forward lookup.
DnsblAnswered == request.probe = "dnsbl" /\ Given(request.body.target)

\* C17: the DNSBL probe, when the forward lookup succeeds, answers
\* ok = true with checked = 4 and listed = the number of the four zones on
\* which the reversed-octet name resolved, every zone being queried whatever
\* the others answered; when the forward lookup fails it answers ok = false
\* and queries no zone.
C17_DnsblCounts ==
    DnsblAnswered
       => IF request.net.host.ok
          THEN /\ response.status = "json" /\ response.ok
               /\ response.data.checked = 4
               /\ response.data.listed
                     = Cardinality({i \in 1..4 : request.net.zones[i].ok})
               /\ response.data.listed \in 0..response.data.checked
               /\ Len(netlog) = 5
               /\ \A i \in 1..4 :
                     /\ netlog[i + 1].op = "resolve"
                     /\ netlog[i + 1].name[2] = Bls[i]
                     /\ \A k \in 1..4 :
                           netlog[i + 1].name[1][k] = request.net.host.value[5 - k]
          ELSE /\ response.status = "json" /\ ~response.ok
               /\ \A i \in DOMAIN netlog : netlog[i].op # "resolve"

\* The first zone lists the address, the second says NXDOMAIN, the third
\* times out.
C17_Witness ==
    /\ DnsblAnswered /\ request.net.host.ok
    /\ request.net.zones[1].ok
    /\ request.net.zones[2] = NetErr("NXDOMAIN")
    /\ request.net.zones[3] = NetErr("timed out")
    /\ response.status = "json" /\ response.data.listed = 1

\* The forward lookup failed.
C17_WitnessNoHost ==
    /\ DnsblAnswered /\ ~request.net.host.ok
    /\ response.status = "json" /\ ~response.ok /\ Len(netlog) = 1

\* ------------------------------------------------------- claims: facade
\* The classifier was called in the course of the is_china_ip call.
Consulted(c) == nops[c] > fcall[c].calls

\* C19: an is_china_ip(ip) call that finds an entry stored less than one
\* hour before returns the stored boolean, leaves the entry alone and does
\* not call the classifier; otherwise (no entry, or one hour or more has
\* passed) it calls the classifier when there is one, and stores the
\* boolean it returns under the time of the call; it returns false when
\* there is no classifier or the classifier's result has an error.
C19_TtlCache ==
    \A c \in Callers :
       fcall[c].pc = "returned"
          => LET f == fcall[c]
             IN IF f.seen # NoEntry /\ f.now - f.seen.ts < 2
                THEN /\ f.ret = f.seen.result
                     /\ ~Consulted(c)
                     /\ ip_cache[f.ip] = f.seen
                ELSE /\ ip_cache[f.ip] = [result |-> f.ret, ts |-> f.now]
                     /\ Consulted(c) <=> ip_checker = "ChinaIPChecker"
                     /\ ~Consulted(c) => ~f.ret
                     /\ (Consulted(c) /\ pc[c] = "returned")
                           => /\ f.ret = (ret[c][1].is_china /\ ret[c][1].error = None)
                              /\ ret[c][1].error # None => ~f.ret

\* An entry stored one hour before is replaced by what the classifier
\* says now.
C19_Witness ==
    \E c \in Callers :
       /\ fcall[c].pc = "returned" /\ Consulted(c)
       /\ fcall[c].seen # NoEntry /\ fcall[c].seen.result
       /\ fcall[c].now - fcall[c].seen.ts = 2
       /\ ip_cache[fcall[c].ip].ts = fcall[c].now

\* An entry stored half an hour before is returned as it is.
C19_WitnessFresh ==
    \E c \in Callers :
       /\ fcall[c].pc = "returned" /\ ~Consulted(c)
       /\ fcall[c].seen # NoEntry /\ fcall[c].seen.result /\ fcall[c].ret
       /\ fcall[c].now - fcall[c].seen.ts = 1

\* The classifier answered with an error and false was stored.
C19_WitnessFailed ==
    \E c \in Callers :
       /\ fcall[c].pc = "returned" /\ Consulted(c) /\ pc[c] = "returned"
       /\ ret[c][1].error # None
       /\ ip_cache[fcall[c].ip] = [result |-> FALSE, ts |-> fcall[c].now]

\* No classifier: false is stored and returned.
C19_WitnessNoChecker ==
    \E c \in Callers :
       /\ fcall[c].pc = "returned" /\ ip_checker = None
       /\ ip_cache[fcall[c].ip] = [result |-> FALSE, ts |-> fcall[c].now]

\* ---------------------------------------------------- claims: statistics
\* C22: the statistics get_statistics returns partition the results:
\* china_ips + foreign_ips + error_ips = total, every result is counted in
\* exactly one of the three classes, and cached_ips <= total.
C22_StatisticsPartition ==
    \A c \in Callers :
       StatisticsReturned(c)
          => LET s == stats[c][1]
                 rs == ret[c]
                 china == {i \in DOMAIN rs : rs[i].is_china /\ rs[i].error = None}
                 foreign == {i \in DOMAIN rs : ~rs[i].is_china /\ rs[i].error = None}
                 failed == {i \in DOMAIN rs : rs[i].error # None}
             IN /\ s.total = Len(rs)
                /\ s.china_ips + s.foreign_ips + s.error_ips = s.total
                /\ s.cached_ips <= s.total
                /\ s.china_ips = Cardinality(china)
                /\ s.foreign_ips = Cardinality(foreign)
                /\ s.error_ips = Cardinality(failed)
                /\ china \cap foreign = {} /\ china \cap failed = {}
                /\ foreign \cap failed = {}
                /\ china \cup foreign \cup failed = DOMAIN rs

\* Statistics of two results, one in the region and one failed lookup.
C22_Witness ==
    \E c \in Callers :
       /\ StatisticsReturned(c)
       /\ stats[c][1].total = 2
       /\ stats[c][1].china_ips = 1 /\ stats[c][1].error_ips = 1
       /\ stats[c][1].foreign_ips = 0

\* ------------------------------------------------ claims: update_database
\* The pair is one a query of the new database gives for ip.
FromNewDb(ip, pair) == pair \in QueryOutcomes(NewDb, ip)

\* C21: once update_database has switched the path and cleared the cache,
\* every result of a lookup that starts afterwards is computed from the new
\* database, and no entry the cache gets after the clear holds a result of
\* the old database.
C21_NewDatabaseAfterUpdate ==
    /\ \A c \in Callers :
          LookupReturned(c)
             => \A i \in DOMAIN ret[c] :
                   LET ip == ret[c][i].ip
                   IN (db_path = NewDb /\ tasks[c][ip].began >= 1)
                         => FromNewDb(ip, <<ret[c][i].country_code, ret[c][i].error>>)
    /\ \A i \in DOMAIN cache :
          (db_path = NewDb /\ cache[i].gen >= 1) => FromNewDb(cache[i].ip, cache[i].pair)

\* ------------------------------------------------------ claims: singleton
\* At most one instance was constructed, it is the singleton, and a call
\* that has returned holds it.
SingletonKept ==
    /\ instances <= 1
    /\ (china_ip_checker = NoInstance) <=> (instances = 0)
    /\ \A c \in Callers :
          gcall[c].pc = "returned"
             => gcall[c].ret = china_ip_checker /\ gcall[c].ret # NoInstance

\* A call whose construction raises leaves the singleton unset and the lock
\* free.
RaiseLeavesUnset ==
    \A c \in Callers :
       (gcall[c].pc # "raised" /\ gcall'[c].pc = "raised")
          => /\ china_ip_checker' = NoInstance
             /\ checker_lock' = None
             /\ instances' = instances

\* C23: under every interleaving of get_china_ip_checker calls at most one
\* ChinaIPChecker is constructed and every call that returns, returns that
\* instance, whatever its arguments; a call whose construction raises
\* leaves the singleton unset, so that a later call constructs it.
C23_Singleton == []SingletonKept /\ [][RaiseLeavesUnset]_singvars

\* A call raised, the next call constructed the instance, and a call with
\* another db_path got that instance.
C23_Witness ==
    \E c, d \in Callers :
       /\ c # d
       /\ gcall[c].pc = "raised"
       /\ gcall[d].pc = "returned"
       /\ gcall[d].ret.id = 1
       /\ gcall[d].ret.db_path # gcall[d].db_path

\* --------------------------------------------------------- claims: locale
\* C24: the language assigned to a request is "zh" if and only if
\* is_china_ip returned true for the request's own client IP, also when
\* another request is handled at the same time.
C24_OwnLanguage ==
    \A c \in Callers :
       greq[c].pc = "done" => (greq[c].lang = "zh" <=> greq[c].own)

====
